---- MODULE Spec2Model ----
(***************************************************************************)
(* State-machine model of sampleplayer.CastPlayer (src/player.js): the     *)
(* playback state machine, the idle-timeout policy, the auto-play          *)
(* buffering controller and the load/stop/error handlers.                  *)
(*                                                                         *)
(* JavaScript is single-threaded and handlers run to completion, so each   *)
(* action below is one whole handler or one whole timer/transition         *)
(* callback.  Strings are sequences of one-character strings so that       *)
(* split, toLowerCase and indexOf are computed, not assumed.               *)
(***************************************************************************)
EXTENDS Integers, Sequences, FiniteSets, TLC

(***************************************************************************)
(* Bounds of the model (not program constants).                            *)
(***************************************************************************)
\* transition_ callbacks waiting for their fade-out at one time
MaxFades == 2
\* MEDIA_INFO_DURATION_ timers pending at one time
MaxDisplayTimers == 1

\* ... and under SpecProbe
MaxProbeDisplayTimers == 2
\* PUMP_POLLING_INTERVAL_ timers pending at one time
MaxPollTimers == 1
\* artwork images loading at one time
MaxPreloads == 1

(***************************************************************************)
(* Program constants.                                                      *)
(***************************************************************************)
\* sampleplayer.IDLE_TIMEOUT, in milliseconds
IDLE_TIMEOUT_LAUNCHING == 300000
IDLE_TIMEOUT_LOADING == 300000
IDLE_TIMEOUT_PAUSED == 1200000
IDLE_TIMEOUT_STALLED == 30000
IDLE_TIMEOUT_DONE == 300000
IDLE_TIMEOUT_IDLE == 300000
\* sampleplayer.INITIAL_PUMP_DURATION_, in seconds
INITIAL_PUMP_DURATION_ == 5
\* HTMLMediaElement.HAVE_ENOUGH_DATA
HAVE_ENOUGH_DATA == 4

\* sampleplayer.State
LAUNCHING == "launching"
LOADING == "loading"
BUFFERING == "buffering"
PLAYING == "playing"
PAUSED == "paused"
STALLED == "stalled"
DONE == "done"
IDLE == "idle"
State == {LAUNCHING, LOADING, BUFFERING, PLAYING, PAUSED, STALLED, DONE, IDLE}

\* sampleplayer.Type
VIDEO == "video"
UNKNOWN == "unknown"

\* the protocol engines of cast.player.api, and direct media-element playback
HLS == "HLS"
DASH == "DASH"
SMOOTH == "SmoothStreaming"
NATIVE == "Native"

\* info.message.autoplay is true, false or undefined
Undefined == "undefined"
True == "true"
False == "false"
\* Number.NaN, the duration of a media element whose duration is unknown
NaN == 0 - 1

(***************************************************************************)
(* Strings.                                                                *)
(***************************************************************************)
\* String.prototype.toLowerCase, on the letters the inputs use
LowerChar(c) ==
  CASE c = "M" -> "m" [] c = "U" -> "u" [] c = "P" -> "p" [] c = "D" -> "d"
    [] c = "I" -> "i" [] c = "S" -> "s" [] c = "A" -> "a" [] OTHER -> c

toLowerCase(s) == [i \in 1..Len(s) |-> LowerChar(s[i])]

\* s.indexOf(p) === 0
StartsWith(s, p) == Len(s) >= Len(p) /\ SubSeq(s, 1, Len(p)) = p

\* s.indexOf(p) > -1
Contains(s, p) ==
  \E i \in 1..(Len(s) - Len(p) + 1) : SubSeq(s, i, i + Len(p) - 1) = p

\* s.split(c): the pieces between the occurrences of c
RECURSIVE Split(_, _)
Split(s, c) ==
  IF \A i \in 1..Len(s) : s[i] # c
    THEN <<s>>
    ELSE LET k == CHOOSE i \in 1..Len(s) :
                    s[i] = c /\ \A j \in 1..(i - 1) : s[j] # c
         IN <<SubSeq(s, 1, k - 1)>> \o Split(SubSeq(s, k + 1, Len(s)), c)

\* sampleplayer.getExtension_
getExtension_(url) ==
  LET parts == Split(url, ".")
  IN IF Len(parts) = 1 \/ (parts[1] = <<>> /\ Len(parts) = 2)
       THEN <<>>
       ELSE toLowerCase(parts[Len(parts)])

\* The pathname of the document the receiver runs in: an empty URL resolves
\* to it.
DocumentPath == <<"/", "p", ".", "h", "t", "m", "l">>

\* the index of the first "?" or "#" of url, or Len(url) + 1
PathEnd(url) ==
  IF \A i \in 1..Len(url) : url[i] \notin {"?", "#"}
    THEN Len(url) + 1
    ELSE CHOOSE i \in 1..Len(url) :
           url[i] \in {"?", "#"} /\ \A j \in 1..(i - 1) : url[j] \notin {"?", "#"}

\* sampleplayer.getPath_: the pathname of the URL (query and fragment cut,
\* a relative URL resolved against the document's directory "/")
getPath_(url) ==
  IF url = <<>> THEN DocumentPath
  ELSE <<"/">> \o SubSeq(url, 1, PathEnd(url) - 1)

\* the strings the code compares with
S_m3u8 == <<"m", "3", "u", "8">>
S_mpd == <<"m", "p", "d">>
S_mp4 == <<"m", "p", "4">>
S_ogv == <<"o", "g", "v">>
S_webm == <<"w", "e", "b", "m">>
S_dot_ism == <<".", "i", "s", "m">>
\* content types are sequences of tokens; a token is never split by a
\* comparison of the code
T_video == <<"video/">>
T_x_mpegurl == <<"application/x-mpegurl">>
T_apple_mpegurl == <<"application/vnd.apple.mpegurl">>
T_dash == <<"application/dash+xml">>
T_sstr == <<"application/vnd.ms-sstr+xml">>

\* sampleplayer.getType_; media.contentId and media.contentType are <<>>
\* when missing or empty (the code reads them through || '')
getType_(media) ==
  LET contentId == media.contentId
      contentType == media.contentType
      contentUrlPath == getPath_(contentId)
      extension == getExtension_(contentUrlPath)
  IN IF StartsWith(contentType, T_video) THEN VIDEO
     ELSE IF StartsWith(contentType, T_x_mpegurl) THEN VIDEO
     ELSE IF StartsWith(contentType, T_apple_mpegurl) THEN VIDEO
     ELSE IF StartsWith(contentType, T_dash) THEN VIDEO
     ELSE IF StartsWith(contentType, T_sstr) THEN VIDEO
     ELSE IF extension = S_m3u8 THEN VIDEO
     ELSE IF extension = S_mp4 THEN VIDEO
     ELSE IF extension = S_ogv THEN VIDEO
     ELSE IF extension = S_webm THEN VIDEO
     ELSE IF extension = S_mpd THEN VIDEO
     ELSE UNKNOWN

\* The protocol choice of sampleplayer.CastPlayer.prototype.loadVideo_:
\* the protocolFunc it picks, NATIVE when protocolFunc stays null.
SelectProtocol(media) ==
  LET url == media.contentId
      type == media.contentType
      path == getPath_(url)
      extension == getExtension_(path)
  IN IF extension = S_m3u8 \/ type = T_x_mpegurl
          \/ type = T_apple_mpegurl
       THEN HLS
     ELSE IF extension = S_mpd \/ type = T_dash THEN DASH
     ELSE IF Contains(path, S_dot_ism) \/ type = T_sstr THEN SMOOTH
     ELSE NATIVE

\* The media descriptions the sender issues in LOAD commands.
U_empty == <<>>
U_a_m3u8 == <<"a", ".", "m", "3", "u", "8">>
U_a_M3U8 == <<"a", ".", "M", "3", "U", "8">>
U_a_mpd == <<"a", ".", "m", "p", "d">>
U_a_mp4 == <<"a", ".", "m", "p", "4">>
U_a_mp4_q == <<"a", ".", "m", "p", "4", "?", "x", ".", "m", "p", "d">>
U_a_ism_m == <<"a", ".", "i", "s", "m", "/", "m">>
U_a_ISM_mp4 == <<"a", ".", "I", "S", "M", "/", "b", ".", "m", "p", "4">>
U_a_ism_mp4 == <<"a", ".", "i", "s", "m", "/", "b", ".", "m", "p", "4">>
U_a_txt == <<"a", ".", "t", "x", "t">>
U_a == <<"a">>
U_dot_mpd == <<".", "m", "p", "d">>
U_a_ISM == <<"a", ".", "I", "S", "M">>
U_a_ism == <<"a", ".", "i", "s", "m">>

Media(id, type) == [contentId |-> id, contentType |-> type]

Descriptors ==
  { Media(U_empty, <<>>), Media(U_empty, T_video \o <<"mp4">>),
    Media(U_a_m3u8, <<>>), Media(U_a_M3U8, <<>>), Media(U_a_mpd, <<>>),
    Media(U_a_mp4, <<>>), Media(U_a_mp4_q, <<>>), Media(U_a_txt, <<>>),
    Media(U_a, <<>>), Media(U_a_ism_m, <<>>), Media(U_a_ism_m, T_sstr),
    Media(U_a_ISM_mp4, <<>>), Media(U_a_ism_mp4, <<>>),
    Media(U_a, T_video \o <<"mp4">>), Media(U_a, T_x_mpegurl),
    Media(U_a, T_apple_mpegurl), Media(U_a, T_dash), Media(U_a, T_sstr),
    Media(U_a_mpd, T_x_mpegurl), Media(U_a_m3u8, T_dash),
    Media(U_a_txt, T_dash \o <<";q">>), Media(U_dot_mpd, <<>>),
    Media(U_a_ism, T_video \o <<"mp4">>),
    Media(U_a_ISM, T_video \o <<"mp4">>) }

\* getType_ and the protocol choice of loadVideo_ on these descriptions,
\* computed once
getTypeOf == [media \in Descriptors |-> getType_(media)]

protocolOf == [media \in Descriptors |-> SelectProtocol(media)]

\* The descriptions the sender issues under SpecProbe: an HLS stream for the
\* Media Player Library, an MP4 file for the media element
ProbeDescriptors == { Media(U_a_m3u8, <<>>), Media(U_a_mp4, <<>>) }

\* The descriptions the sender issues while the state machine is explored:
\* rejected ones, one played by the media element and one played by a
\* protocol engine (the handlers treat every protocol engine alike).
LoadDescriptors ==
  { Media(U_empty, T_video \o <<"mp4">>), Media(U_a_txt, <<>>),
    Media(U_a_mp4, <<>>), Media(U_a_m3u8, <<>>) }

(***************************************************************************)
(* The state.  The fields of the CastPlayer object keep their names; a     *)
(* timer handle is the id of a pending timer, or 0 when the field is null  *)
(* or undefined or when its timer has been cleared (clearTimeout of such a *)
(* handle does nothing, as of 0).                                          *)
(***************************************************************************)
VARIABLES
  state_,                  \* this.state_
  idleTimerId_,            \* this.idleTimerId_
  player_,                 \* this.player_ (NoPlayer when null or undefined)
  playerAutoPlay_,         \* this.playerAutoPlay_
  playerAutoPlayTimerId_,  \* this.playerAutoPlayTimerId_
  applicationState_,       \* this.applicationState_ (Undefined until
                           \* updateApplicationState_ sets it)
  idleTimers,              \* pending idle timers: records [id, t]
  displayTimers,           \* pending MEDIA_INFO_DURATION_ timers of
                           \* onLoadSuccess_, oldest first: the totalTime each
                           \* closure captured
  pollTimers,              \* pending PUMP_POLLING_INTERVAL_ timers, oldest
                           \* first: their ids
  fades,                   \* transition_ callbacks waiting for the end of
                           \* their fade-out, oldest first
  preloads,                \* number of loads whose artwork image is loading
  stalledListeners,        \* some 'stalled'/'waiting' listener is registered
                           \* on the media element
  livePlayers,             \* number of cast.player.api.Player objects
                           \* constructed and not unloaded
  metadataDue,             \* the environment of SpecProbe: the media element
                           \* has been given a source whose 'loadedmetadata'
                           \* has not fired yet (under Spec the signal may
                           \* come at any time, and this stays FALSE)
  shutdown,                \* receiverManager_.stop() has been called
  ext,                     \* what the latest step did, in order: the command
                           \* it handled and the calls it made
  probeCancelled,          \* cancelPlayerAutoPlay_ has run since the latest
                           \* probe was started, and a probe is pending
  arg,                     \* SpecCall: the function that is called and its
                           \* arguments
  result                   \* SpecCall: what the call returned

vars == <<state_, idleTimerId_, player_, playerAutoPlay_,
          playerAutoPlayTimerId_, applicationState_, idleTimers, displayTimers, pollTimers,
          fades, preloads, stalledListeners, livePlayers, metadataDue,
          shutdown, ext, probeCancelled, arg, result>>

NoPlayer == [protocol |-> "none"]

\* no function is called on its own (the state machine runs)
NoCall == [fn |-> "none"]

\* what this.mediaManager_.getMediaInformation() returns: nothing, or the
\* description of a media without or with a title in its metadata
NoMedia == [media |-> FALSE, title |-> FALSE]

MediaInformations ==
  { NoMedia, [media |-> TRUE, title |-> FALSE], [media |-> TRUE, title |-> TRUE] }

\* The state as one record, so that a handler is a function from the state
\* before it to the state after it and handlers compose as calls do.  Every
\* step starts with an empty log.  mediaInformation is what the media
\* manager returns while the step runs: it belongs to the library, and a
\* step that reads it may find any of MediaInformations (see Worlds).
World ==
  [state_ |-> state_, idleTimerId_ |-> idleTimerId_, player_ |-> player_,
   playerAutoPlay_ |-> playerAutoPlay_,
   playerAutoPlayTimerId_ |-> playerAutoPlayTimerId_,
   applicationState_ |-> applicationState_, mediaInformation |-> NoMedia,
   idleTimers |-> idleTimers, displayTimers |-> displayTimers,
   pollTimers |-> pollTimers, fades |-> fades, preloads |-> preloads,
   stalledListeners |-> stalledListeners, livePlayers |-> livePlayers,
   metadataDue |-> metadataDue, shutdown |-> shutdown, ext |-> <<>>, probeCancelled |-> probeCancelled]

\* the queues stay within the bounds of the model (the 'loadedmetadata'
\* actions bound displayTimers)
Bounded(w) ==
  /\ Len(w.fades) <= MaxFades
  /\ Len(w.pollTimers) <= MaxPollTimers
  /\ w.preloads <= MaxPreloads

\* the state at the start of a step that may read the media information
Worlds == {[World EXCEPT !.mediaInformation = m] : m \in MediaInformations}

\* the fields of the object after a step are those of w
Assign(w) ==
  /\ Bounded(w)
  /\ applicationState_' = w.applicationState_
  /\ state_' = w.state_
  /\ idleTimerId_' = w.idleTimerId_
  /\ player_' = w.player_
  /\ playerAutoPlay_' = w.playerAutoPlay_
  /\ playerAutoPlayTimerId_' = w.playerAutoPlayTimerId_
  /\ idleTimers' = w.idleTimers
  /\ displayTimers' = w.displayTimers
  /\ pollTimers' = w.pollTimers
  /\ fades' = w.fades
  /\ preloads' = w.preloads
  /\ stalledListeners' = w.stalledListeners
  /\ livePlayers' = w.livePlayers
  /\ metadataDue' = w.metadataDue
  /\ shutdown' = w.shutdown
  /\ ext' = w.ext
  /\ probeCancelled' =
       (w.probeCancelled /\ (w.displayTimers # <<>> \/ w.pollTimers # <<>>))

\* the fields of the object
fields ==
  <<state_, idleTimerId_, player_, playerAutoPlay_, playerAutoPlayTimerId_,
    applicationState_, idleTimers, displayTimers, pollTimers, fades, preloads,
    stalledListeners, livePlayers, metadataDue, shutdown, ext, probeCancelled>>

\* a step of the state machine
Commit(w) == Assign(w) /\ UNCHANGED <<arg, result>>

\* an entry of the log: the operation, this.state_ when it ran, a number
Did(w, op, v) == [w EXCEPT !.ext = Append(@, [op |-> op, state |-> w.state_,
                                              v |-> v])]

\* the step's log has a call of op
Called(log, op) == \E i \in 1..Len(log) : log[i].op = op

\* the calls of op in the step's log
Calls(log, op) == {i \in 1..Len(log) : log[i].op = op}

\* setTimeout: the id of the new timer, unused by every pending one
FreshId(ids) == CHOOSE n \in 1..(Cardinality(ids) + 1) : n \notin ids

SeqIds(s) == {s[i] : i \in 1..Len(s)}

\* s without its elements equal to x
RECURSIVE Without(_, _)
Without(s, x) ==
  IF s = <<>> THEN <<>>
  ELSE IF Head(s) = x THEN Without(Tail(s), x)
  ELSE <<Head(s)>> \o Without(Tail(s), x)

\* sampleplayer.IDLE_TIMEOUT[state.toUpperCase()]; 0 stands for undefined
IDLE_TIMEOUT(state) ==
  CASE state = LAUNCHING -> IDLE_TIMEOUT_LAUNCHING
    [] state = LOADING -> IDLE_TIMEOUT_LOADING
    [] state = PAUSED -> IDLE_TIMEOUT_PAUSED
    [] state = STALLED -> IDLE_TIMEOUT_STALLED
    [] state = DONE -> IDLE_TIMEOUT_DONE
    [] state = IDLE -> IDLE_TIMEOUT_IDLE
    [] OTHER -> 0

\* clearTimeout(this.idleTimerId_)
ClearIdleTimer(w) ==
  [w EXCEPT !.idleTimers = {x \in w.idleTimers : x.id # w.idleTimerId_},
            !.idleTimerId_ = 0]

\* setIdleTimeout_ without its clearTimeout
setIdleTimeout_NoClear(w, t) ==
  LET id == FreshId({x.id : x \in w.idleTimers})
  IN IF t # 0
       THEN [w EXCEPT !.idleTimers = @ \cup {[id |-> id, t |-> t]},
                      !.idleTimerId_ = id]
       ELSE w

\* sampleplayer.CastPlayer.prototype.setIdleTimeout_
setIdleTimeout_(w, t) ==
  LET w1 == ClearIdleTimer(w)
      id == FreshId({x.id : x \in w1.idleTimers})
  IN IF t # 0
       THEN [w1 EXCEPT !.idleTimers = @ \cup {[id |-> id, t |-> t]},
                       !.idleTimerId_ = id]
       ELSE w1

\* sampleplayer.transition_: something runs when the fade-out has ended
transition_(w, something) == [w EXCEPT !.fades = Append(@, something)]

\* a callback given to transition_: what it is, the state it sets, and the
\* handler that started it
Callback(cb, state, from) == [cb |-> cb, state |-> state, from |-> from]

\* sampleplayer.getApplicationState_
READY_TO_CAST == "Ready To Cast"
NOW_CASTING == "Now Casting"
NOW_CASTING_TITLE == "Now Casting: title"

getApplicationState_(opt_media) ==
  IF opt_media.media /\ opt_media.title THEN NOW_CASTING_TITLE
  ELSE IF opt_media.media THEN NOW_CASTING
  ELSE READY_TO_CAST

\* updateApplicationState_ that asks for the media information in every state
updateApplicationState_AnyState(w) ==
  LET applicationState == getApplicationState_(w.mediaInformation)
  IN IF w.applicationState_ # applicationState
       THEN Did([w EXCEPT !.applicationState_ = applicationState],
                "setApplicationState", 0)
       ELSE w

\* sampleplayer.CastPlayer.prototype.updateApplicationState_ (this.mediaManager_
\* is set once the constructor has returned)
updateApplicationState_(w) ==
  LET idle == w.state_ = IDLE
      media == IF idle THEN NoMedia ELSE w.mediaInformation
      applicationState == getApplicationState_(media)
  IN IF w.applicationState_ # applicationState
       THEN Did([w EXCEPT !.applicationState_ = applicationState],
                "setApplicationState", 0)
       ELSE w

\* setState_ that calls setIdleTimeout_ only for a state that has an entry in
\* IDLE_TIMEOUT
setState_KeepTimer(w, state, opt_crossfade, from) ==
  IF ~opt_crossfade
    THEN LET w1 == updateApplicationState_([w EXCEPT !.state_ = state])
         IN IF IDLE_TIMEOUT(state) # 0
              THEN setIdleTimeout_(w1, IDLE_TIMEOUT(state))
              ELSE w1
    ELSE transition_(w, Callback("setState", state, from))

\* sampleplayer.CastPlayer.prototype.setState_ (opt_delay is never passed)
setState_(w, state, opt_crossfade, from) ==
  IF ~opt_crossfade
    THEN setIdleTimeout_(updateApplicationState_([w EXCEPT !.state_ = state]),
                         IDLE_TIMEOUT(state))
    ELSE transition_(w, Callback("setState", state, from))

\* sampleplayer.CastPlayer.prototype.resetMediaElement_
resetMediaElement_(w) ==
  IF w.player_ # NoPlayer
    THEN [Did(w, "unload", 0) EXCEPT !.livePlayers = @ - 1,
                                     !.player_ = NoPlayer]
    ELSE w

\* sampleplayer.CastPlayer.prototype.cancelPlayerAutoPlay_
cancelPlayerAutoPlay_(w) ==
  LET w1 == [w EXCEPT !.probeCancelled = TRUE]
  IN IF w1.playerAutoPlayTimerId_ # 0
       THEN [w1 EXCEPT !.pollTimers = Without(@, w.playerAutoPlayTimerId_),
                       !.playerAutoPlayTimerId_ = 0]
       ELSE w1

\* this.mediaElement_.play()
Play(w) == Did(w, "play", 0)

(***************************************************************************)
(* The handlers, as functions of the state.                                *)
(***************************************************************************)
\* sampleplayer.CastPlayer.prototype.onLoadMetadataError_
onLoadMetadataError_(w, info) ==
  transition_(w, Callback("metadataError", IDLE, "onLoadMetadataError_"))

\* sampleplayer.CastPlayer.prototype.loadVideo_.  The listeners it adds are
\* fresh bound functions, so the removeEventListener calls, which name the
\* unbound this.onBuffering_, remove none of them.
loadVideo_(w, info) ==
  LET protocol == protocolOf[info.media]
  IN IF protocol = NATIVE
       THEN [w EXCEPT !.stalledListeners = TRUE]
       ELSE [Did(w, "new Player", 0) EXCEPT
               !.playerAutoPlay_ = IF info.autoplay = Undefined THEN TRUE
                                   ELSE info.autoplay = True,
               !.player_ = [protocol |-> protocol],
               !.livePlayers = @ + 1]

\* sampleplayer.preload_ with the doneFunc load gives it: doneFunc runs at
\* once when there is no image, and at the image's onload otherwise
preload_(w, info) ==
  IF ~info.image
    THEN transition_(w, Callback("loading", LOADING, "load"))
    ELSE [w EXCEPT !.preloads = @ + 1]

\* load without its test of the media kind
load_AnyKind(w, info) ==
  LET w1 == ClearIdleTimer(w)
  IN IF info.media.contentId = <<>> THEN onLoadMetadataError_(w1, info)
     ELSE preload_(loadVideo_(resetMediaElement_(w1), info), info)

\* sampleplayer.CastPlayer.prototype.load
load(w, info) ==
  LET w1 == ClearIdleTimer(w)
      media == info.media
      playerType == getTypeOf[media]
  IN IF media.contentId = <<>> THEN onLoadMetadataError_(w1, info)
     ELSE IF playerType = UNKNOWN THEN onLoadMetadataError_(w1, info)
     ELSE preload_(loadVideo_(resetMediaElement_(w1), info), info)

\* sampleplayer.CastPlayer.prototype.onLoad_
onLoad_(w, info) == load(cancelPlayerAutoPlay_(w), info)

\* sampleplayer.CastPlayer.prototype.onStop_
onStop_(w) ==
  transition_(cancelPlayerAutoPlay_(w), Callback("stop", IDLE, "onStop_"))

\* sampleplayer.CastPlayer.prototype.onError_
onError_(w) == transition_(w, Callback("error", IDLE, "onError_"))

\* host.onError of loadVideo_
hostOnError(w) ==
  IF w.player_ # NoPlayer
    THEN onError_([Did(w, "unload", 0) EXCEPT !.livePlayers = @ - 1,
                                              !.player_ = NoPlayer])
    ELSE w

\* onBuffering_ without its test of the state
onBuffering_AnyState(w, readyState) ==
  IF readyState < HAVE_ENOUGH_DATA
    THEN setState_(w, BUFFERING, FALSE, "onBuffering_")
    ELSE w

\* sampleplayer.CastPlayer.prototype.onBuffering_
onBuffering_(w, readyState) ==
  IF w.state_ = PLAYING /\ readyState < HAVE_ENOUGH_DATA
    THEN setState_(w, BUFFERING, FALSE, "onBuffering_")
    ELSE w

\* sampleplayer.CastPlayer.prototype.onPlaying_
onPlaying_(w) ==
  LET w1 == cancelPlayerAutoPlay_(w)
      isLoading == w1.state_ = LOADING
  IN setState_(w1, PLAYING, isLoading, "onPlaying_")

\* onPause_ testing underflow only when the state is not Idle and the media
\* has not ended
onPause_IdleFirst(w, isDone, underflow) ==
  LET w1 == cancelPlayerAutoPlay_(w)
      isIdle == w1.state_ = IDLE
      isUnderflow == w1.player_ # NoPlayer /\ underflow
  IN IF isIdle \/ isDone THEN w1
     ELSE IF isUnderflow
       THEN Did(setState_(w1, BUFFERING, FALSE, "onPause_"),
                "broadcastStatus", 0)
     ELSE setState_(w1, PAUSED, FALSE, "onPause_")

\* sampleplayer.CastPlayer.prototype.onPause_; underflow is what
\* this.player_.getState()['underflow'] returns when there is a player
onPause_(w, isDone, underflow) ==
  LET w1 == cancelPlayerAutoPlay_(w)
      isIdle == w1.state_ = IDLE
      isUnderflow == w1.player_ # NoPlayer /\ underflow
  IN IF isUnderflow
       THEN Did(setState_(w1, BUFFERING, FALSE, "onPause_"),
                "broadcastStatus", 0)
     ELSE IF ~isIdle /\ ~isDone THEN setState_(w1, PAUSED, FALSE, "onPause_")
     ELSE w1

\* cast.receiver.media.PlayerState
PLAYER_IDLE == "IDLE"
PLAYER_PLAYING == "PLAYING"
PLAYER_PAUSED == "PAUSED"
PLAYER_BUFFERING == "BUFFERING"
PlayerState == {PLAYER_IDLE, PLAYER_PLAYING, PLAYER_PAUSED, PLAYER_BUFFERING}

\* customizedStatusCallback_ rewriting PAUSED whatever the state
customizedStatusCallback_AnyState(w, mediaStatus) ==
  [w |-> w,
   mediaStatus |->
     IF mediaStatus.playerState = PLAYER_PAUSED
       THEN [mediaStatus EXCEPT !.playerState = PLAYER_BUFFERING]
       ELSE mediaStatus]

\* sampleplayer.CastPlayer.prototype.customizedStatusCallback_: the object
\* after the call and the status it returns
customizedStatusCallback_(w, mediaStatus) ==
  [w |-> w,
   mediaStatus |->
     IF mediaStatus.playerState = PLAYER_PAUSED /\ w.state_ = BUFFERING
       THEN [mediaStatus EXCEPT !.playerState = PLAYER_BUFFERING]
       ELSE mediaStatus]

\* sampleplayer.CastPlayer.prototype.onEnded_
onEnded_(w) == setState_(w, DONE, TRUE, "onEnded_")

\* onProgress_ calling setState_ in every state
onProgress_Always(w) == setState_(w, PLAYING, FALSE, "onProgress_")

\* sampleplayer.CastPlayer.prototype.onProgress_
onProgress_(w) ==
  IF w.state_ = BUFFERING \/ w.state_ = LOADING
    THEN setState_(w, PLAYING, FALSE, "onProgress_")
    ELSE w

\* the loop of getBufferedDuration_, from range i on
RECURSIVE BufferedFrom(_, _, _)
BufferedFrom(bufferedRanges, currentTime, i) ==
  IF i > Len(bufferedRanges) THEN 0
  ELSE IF bufferedRanges[i].start <= currentTime
            /\ bufferedRanges[i].end > currentTime
    THEN bufferedRanges[i].end - currentTime
  ELSE BufferedFrom(bufferedRanges, currentTime, i + 1)

\* sampleplayer.CastPlayer.prototype.getBufferedDuration_
getBufferedDuration_(mediaElement) ==
  BufferedFrom(mediaElement.buffered, mediaElement.currentTime, 1)

\* sampleplayer.CastPlayer.prototype.doPlayerAutoPlay_
doPlayerAutoPlay_(w, mediaElement) ==
  LET bufferedDuration == getBufferedDuration_(mediaElement)
      hasEnoughDataPumped == bufferedDuration >= INITIAL_PUMP_DURATION_
      w1 == Did(w, "getBufferedDuration_", bufferedDuration)
      id == FreshId(SeqIds(w.pollTimers))
  IN IF hasEnoughDataPumped
       THEN [Play(w1) EXCEPT !.playerAutoPlayTimerId_ = 0]
       ELSE [w1 EXCEPT !.playerAutoPlayTimerId_ = id,
                       !.pollTimers = Append(@, id)]

\* sampleplayer.CastPlayer.prototype.onLoadSuccess_
onLoadSuccess_(w, totalTime) ==
  IF w.player_ # NoPlayer /\ w.playerAutoPlay_
    THEN [w EXCEPT !.displayTimers = Append(@, totalTime),
                   !.probeCancelled = FALSE]
    ELSE w

\* the function onLoadSuccess_ gives to setTimeout
displayTimeout(w, totalTime, mediaElement) ==
  IF totalTime # NaN /\ totalTime > INITIAL_PUMP_DURATION_
    THEN doPlayerAutoPlay_(w, mediaElement)
    ELSE Play(w)

\* the callbacks given to transition_, by the handler that gave them
loadTransition(w) == setState_(w, LOADING, FALSE, "load")

setStateTransition(w, state) == setState_(w, state, FALSE, "setState_")

\* the callback of onStop_ with its two calls in the other order
stopTransition_HookFirst(w) ==
  setState_(Did(w, "onStopOrig_", 0), IDLE, FALSE, "onStop_")

stopTransition(w) ==
  Did(setState_(w, IDLE, FALSE, "onStop_"), "onStopOrig_", 0)

\* the callback of onError_ without its setState_
errorTransition_NoIdle(w) == Did(w, "onErrorOrig_", 0)

\* the callback of onError_ calling the error handler twice
errorTransition_Twice(w) ==
  Did(Did(setState_(w, IDLE, TRUE, "onError_"), "onErrorOrig_", 0),
      "onErrorOrig_", 0)

errorTransition(w) ==
  Did(setState_(w, IDLE, TRUE, "onError_"), "onErrorOrig_", 0)

metadataErrorTransition(w) ==
  Did(setState_(w, IDLE, TRUE, "onLoadMetadataError_"),
      "onLoadMetadataErrorOrig_", 0)

\* The function setIdleTimeout_ gives to setTimeout: receiverManager_.stop()
\* ends the receiver application, and nothing of the player is left.
idleTimeout(w) ==
  [state_ |-> w.state_, idleTimerId_ |-> 0, player_ |-> NoPlayer,
   playerAutoPlay_ |-> FALSE, playerAutoPlayTimerId_ |-> 0,
   applicationState_ |-> w.applicationState_, mediaInformation |-> NoMedia,
   idleTimers |-> {}, displayTimers |-> <<>>, pollTimers |-> <<>>,
   fades |-> <<>>, preloads |-> 0, stalledListeners |-> FALSE,
   livePlayers |-> 0, metadataDue |-> FALSE, shutdown |-> TRUE,
   ext |-> <<[op |-> "receiverManager_.stop", state |-> w.state_, v |-> 0]>>,
   probeCancelled |-> FALSE]

(***************************************************************************)
(* The inputs.                                                             *)
(***************************************************************************)
Range(start, end) == [start |-> start, end |-> end]

\* what the media element reports at a poll: its buffered ranges and its
\* current time
MediaElements ==
  { [buffered |-> <<Range(1, 9)>>, currentTime |-> 0],
    [buffered |-> <<Range(0, 2)>>, currentTime |-> 0],
    [buffered |-> <<Range(0, 2), Range(2, 7)>>, currentTime |-> 2] }

\* mediaElement_.duration at loadedmetadata, in seconds
Durations == {NaN, 5, 60}

\* mediaElement_.readyState
ReadyStates == {0, 3, 4}

(***************************************************************************)
(* The state after the constructor: setState_(LAUNCHING) has armed the     *)
(* idle timer; no listener for 'stalled' or 'waiting' is registered yet.   *)
(***************************************************************************)
Constructed ==
  /\ idleTimerId_ = 1
  /\ idleTimers = {[id |-> 1, t |-> IDLE_TIMEOUT(LAUNCHING)]}
  /\ player_ = NoPlayer
  /\ playerAutoPlay_ = FALSE
  /\ playerAutoPlayTimerId_ = 0
  /\ applicationState_ = Undefined
  /\ displayTimers = <<>>
  /\ pollTimers = <<>>
  /\ fades = <<>>
  /\ preloads = 0
  /\ stalledListeners = FALSE
  /\ livePlayers = 0
  /\ metadataDue = FALSE
  /\ shutdown = FALSE
  /\ ext = <<>>
  /\ probeCancelled = FALSE

Init ==
  /\ state_ = LAUNCHING
  /\ Constructed
  /\ arg = NoCall
  /\ result = Undefined

(***************************************************************************)
(* The actions: one per handler or callback.  Nothing runs once the        *)
(* receiver manager has been stopped.  Commands and media signals come     *)
(* once the receiver is ready.                                             *)
(***************************************************************************)
Ready == ~shutdown /\ state_ # LAUNCHING

\* receiverManager_.onReady
OnReady ==
  /\ ~shutdown /\ state_ = LAUNCHING
  /\ \E w \in Worlds : Commit(setState_(w, IDLE, FALSE, "onReady_"))

\* A LOAD that load() rejects: no content id, or a
\* media kind that classifies as unknown.
Rejected(media) == media.contentId = <<>> \/ getTypeOf[media] = UNKNOWN

\* mediaManager_.onLoad: a LOAD command with a description out of
\* descriptors, with artwork or not as images says; sourced says whether the
\* environment keeps track of the source the load gives the media element
OnLoadOf(descriptors, images, sourced) ==
  /\ Ready
  /\ \E media \in descriptors, autoplay \in {Undefined, True, False},
        image \in images :
       LET w == onLoad_(Did(World, "LOAD", IF Rejected(media) THEN 0 ELSE 1),
                        [media |-> media, autoplay |-> autoplay,
                         image |-> image])
       IN Commit([w EXCEPT !.metadataDue = IF sourced /\ ~Rejected(media)
                                             THEN TRUE ELSE @])

OnLoad == OnLoadOf(LoadDescriptors, BOOLEAN, FALSE)

\* a LOAD of SpecProbe: adaptive or plain media, without artwork
OnLoadProbe == OnLoadOf(ProbeDescriptors, {FALSE}, TRUE)

\* mediaManager_.onStop: a STOP command
OnStop == Ready /\ Commit(onStop_(Did(World, "STOP", 0)))

\* the artwork image of a load has loaded
PreloadDone ==
  /\ ~shutdown /\ preloads > 0
  /\ Commit(transition_([World EXCEPT !.preloads = @ - 1],
                        Callback("loading", LOADING, "load")))

\* the fade-out of the oldest transition_ has ended
FadeDone(cb) == ~shutdown /\ fades # <<>> /\ Head(fades).cb = cb

Popped(w) == [w EXCEPT !.fades = Tail(@)]

LoadTransitionDone ==
  FadeDone("loading") /\ \E w \in Worlds : Commit(loadTransition(Popped(w)))

SetStateTransitionDone ==
  /\ FadeDone("setState")
  /\ \E w \in Worlds :
       Commit(setStateTransition(Popped(w), Head(fades).state))

StopTransitionDone ==
  FadeDone("stop") /\ \E w \in Worlds : Commit(stopTransition(Popped(w)))

ErrorTransitionDone ==
  FadeDone("error") /\ Commit(errorTransition(Popped(World)))

MetadataErrorTransitionDone ==
  FadeDone("metadataError") /\ Commit(metadataErrorTransition(Popped(World)))

\* The media element's events.  'error': the listener the constructor adds,
\* or the media manager calling its onError, which is onError_ too.
MediaError == Ready /\ Commit(onError_(World))

MediaPlaying == Ready /\ \E w \in Worlds : Commit(onPlaying_(w))

\* 'pause' when the play position is the duration or not (isDone) and the
\* player reports underflow or not, which only a player can
Pause(isDone, underflow) ==
  /\ Ready /\ (underflow => player_ # NoPlayer)
  /\ \E w \in Worlds : Commit(onPause_(w, isDone, underflow))

MediaPause == \E isDone \in BOOLEAN, underflow \in BOOLEAN : Pause(isDone, underflow)

MediaEnded == Ready /\ Commit(onEnded_(World))

\* 'timeupdate'
MediaTimeUpdate ==
  Ready /\ \E w \in Worlds : Commit(onProgress_(Did(w, "timeupdate", 0)))

\* 'stalled' or 'waiting': the registered listeners run onBuffering_ (a
\* second listener finds the state the first left, and changes nothing)
Stalled(readyState) ==
  /\ Ready /\ stalledListeners
  /\ \E w \in Worlds : Commit(onBuffering_(w, readyState))

MediaStalled == \E readyState \in ReadyStates : Stalled(readyState)

\* 'loadedmetadata', whenever the receiver is ready
MediaLoadedMetadata ==
  /\ Ready
  /\ \E totalTime \in Durations :
       LET w == onLoadSuccess_(World, totalTime)
       IN Len(w.displayTimers) <= MaxDisplayTimers /\ Commit(w)

\* 'loadedmetadata' of SpecProbe: it fires once for each source the media
\* element is given
MediaLoadedMetadataOnce ==
  /\ Ready /\ metadataDue
  /\ \E totalTime \in Durations :
       LET w == onLoadSuccess_(World, totalTime)
       IN /\ Len(w.displayTimers) <= MaxProbeDisplayTimers
          /\ Commit([w EXCEPT !.metadataDue = FALSE])

\* the protocol engine of the loaded player reports a fatal error to its host
HostError == Ready /\ player_ # NoPlayer /\ Commit(hostOnError(World))

\* the oldest MEDIA_INFO_DURATION_ timer fires
DisplayTimerFire ==
  /\ ~shutdown /\ displayTimers # <<>>
  /\ \E mediaElement \in MediaElements :
       Commit(displayTimeout([World EXCEPT !.displayTimers = Tail(@)],
                             Head(displayTimers), mediaElement))

\* the oldest PUMP_POLLING_INTERVAL_ timer fires
PollTimerFire ==
  /\ ~shutdown /\ pollTimers # <<>>
  /\ \E mediaElement \in MediaElements :
       Commit(doPlayerAutoPlay_([World EXCEPT !.pollTimers = Tail(@)],
                                mediaElement))

\* an idle timer fires
IdleTimerFire ==
  /\ ~shutdown
  /\ \E timer \in idleTimers :
       Commit(idleTimeout([World EXCEPT !.idleTimers = @ \ {timer}]))

Next ==
  \/ OnReady
  \/ OnLoad
  \/ OnStop
  \/ PreloadDone
  \/ LoadTransitionDone
  \/ SetStateTransitionDone
  \/ StopTransitionDone
  \/ ErrorTransitionDone
  \/ MetadataErrorTransitionDone
  \/ MediaError
  \/ MediaPlaying
  \/ MediaPause
  \/ MediaEnded
  \/ MediaTimeUpdate
  \/ MediaStalled
  \/ MediaLoadedMetadata
  \/ HostError
  \/ DisplayTimerFire
  \/ PollTimerFire
  \/ IdleTimerFire

Spec == Init /\ [][Next]_vars

(***************************************************************************)
(* The state machine without the auto-play controller: no 'loadedmetadata' *)
(* arrives, so no probe timer is ever pending.  The handlers of the other  *)
(* actions read no variable of the controller, and its timers change none  *)
(* but its own and the log.                                                *)
(***************************************************************************)
NextCore ==
  \/ OnReady
  \/ OnLoad
  \/ OnStop
  \/ PreloadDone
  \/ LoadTransitionDone
  \/ SetStateTransitionDone
  \/ StopTransitionDone
  \/ ErrorTransitionDone
  \/ MetadataErrorTransitionDone
  \/ MediaError
  \/ MediaPlaying
  \/ MediaPause
  \/ MediaEnded
  \/ MediaTimeUpdate
  \/ MediaStalled
  \/ HostError
  \/ IdleTimerFire

SpecCore == Init /\ [][NextCore]_vars

\* the end of a fade-out: the browser fires 'webkitTransitionEnd' for every
\* fade-out that has started
FadeEnds ==
  \/ LoadTransitionDone
  \/ SetStateTransitionDone
  \/ StopTransitionDone
  \/ ErrorTransitionDone
  \/ MetadataErrorTransitionDone

\* a fade-out can end exactly when one is pending and the receiver runs
FadeEndsEnabled ==
  (ENABLED <<FadeEnds>>_vars) <=> (fades # <<>> /\ ~shutdown)

\* SpecCore where every fade-out that has started ends.  The condition is
\* weak fairness of FadeEnds, WF_vars(FadeEnds), with ENABLED <<FadeEnds>>_vars
\* written as the state predicate FadeEndsEnabled shows it equal to.
SpecCoreFair ==
  SpecCore /\ ([]<>(fades = <<>> \/ shutdown) \/ []<><<FadeEnds>>_vars)

(***************************************************************************)
(* Auto-play of an HLS stream from LOAD to 'playing': the LOAD with or      *)
(* without artwork, its preload and fade-out, 'loadedmetadata', the timers  *)
(* of the probe, and the 'playing' the media element fires once play() has *)
(* been called.                                                            *)
(***************************************************************************)
HlsDescriptors == { Media(U_a_m3u8, <<>>) }

OnLoadHls == OnLoadOf(HlsDescriptors, BOOLEAN, TRUE)

\* 'playing', following the mediaElement_.play() of the step before
MediaPlayingAfterPlay == Called(ext, "play") /\ MediaPlaying

NextAutoPlay ==
  \/ OnReady
  \/ OnLoadHls
  \/ PreloadDone
  \/ LoadTransitionDone
  \/ SetStateTransitionDone
  \/ MediaLoadedMetadataOnce
  \/ DisplayTimerFire
  \/ PollTimerFire
  \/ MediaPlayingAfterPlay
  \/ IdleTimerFire

SpecAutoPlay == Init /\ [][NextAutoPlay]_vars

(***************************************************************************)
(* One LOAD of an adaptive stream, then STOP commands, no media signal:    *)
(* the preload and the fade-outs that have started complete.               *)
(***************************************************************************)
\* streams a protocol engine plays
StreamDescriptors ==
  { Media(U_a_m3u8, <<>>), Media(U_a_mpd, <<>>), Media(U_a, T_sstr) }

\* the first LOAD: no player has been constructed yet
OnLoadFirst ==
  player_ = NoPlayer /\ OnLoadOf(StreamDescriptors, BOOLEAN, FALSE)

\* a STOP after that LOAD
OnStopLoaded == player_ # NoPlayer /\ OnStop

NextStop ==
  \/ OnReady
  \/ OnLoadFirst
  \/ OnStopLoaded
  \/ PreloadDone
  \/ LoadTransitionDone
  \/ StopTransitionDone
  \/ IdleTimerFire

SpecStop ==
  Init /\ [][NextStop]_vars /\ WF_vars(FadeEnds) /\ WF_vars(PreloadDone)

(***************************************************************************)
(* The functions that compute a value from their arguments and the state,  *)
(* each called once with arguments out of CallArgs: the protocol choice of *)
(* loadVideo_ on every description, and customizedStatusCallback_ on every *)
(* status in every state.                                                  *)
(***************************************************************************)
CallArgs ==
  {[fn |-> "loadVideo_", media |-> media] : media \in Descriptors}
    \cup {[fn |-> "customizedStatusCallback_",
           mediaStatus |-> [playerState |-> playerState]] :
            playerState \in PlayerState}

InitCall ==
  /\ arg \in CallArgs
  /\ result = Undefined
  /\ state_ \in (IF arg.fn = "customizedStatusCallback_" THEN State
                 ELSE {LAUNCHING})
  /\ Constructed

\* the protocol choice of loadVideo_ for the description of the LOAD
LoadVideoCall ==
  /\ arg.fn = "loadVideo_" /\ result = Undefined
  /\ result' = SelectProtocol(arg.media)
  /\ arg' = arg
  /\ Assign([World EXCEPT !.ext = ext])

\* the media manager asks for the status it is to send
StatusCallbackCall ==
  /\ arg.fn = "customizedStatusCallback_" /\ result = Undefined
  /\ LET r == customizedStatusCallback_([World EXCEPT !.ext = ext],
                                        arg.mediaStatus)
     IN Assign(r.w) /\ result' = r.mediaStatus.playerState
  /\ arg' = arg

NextCall == LoadVideoCall \/ StatusCallbackCall

SpecCall == InitCall /\ [][NextCall]_vars

(***************************************************************************)
(* The auto-play controller in the environment it is meant for: commands,  *)
(* one 'loadedmetadata' per source, 'playing' and 'pause', and the timers. *)
(***************************************************************************)
NextProbe ==
  \/ OnReady
  \/ OnLoadProbe
  \/ OnStop
  \/ LoadTransitionDone
  \/ SetStateTransitionDone
  \/ StopTransitionDone
  \/ MediaPlaying
  \/ MediaPause
  \/ MediaLoadedMetadataOnce
  \/ DisplayTimerFire
  \/ PollTimerFire
  \/ IdleTimerFire

SpecProbe == Init /\ [][NextProbe]_vars

(***************************************************************************)
(* The properties.                                                         *)
(***************************************************************************)
\* the durations of the armed idle timers
ArmedDurations == {x.t : x \in idleTimers}

\* The idle timer the specification gives a state: 5 minutes in Launching,
\* Loading, Done and Idle, 20 minutes in Paused, none in Buffering and
\* Playing.
TimersOf(state) ==
  CASE state \in {LAUNCHING, LOADING, DONE, IDLE} -> {5 * 60 * 1000}
    [] state = PAUSED -> {20 * 60 * 1000}
    [] OTHER -> {}

\* C1: A LOAD whose description has no content id, or whose media kind is
\* unknown, constructs no player and leaves this.player_ as it was, whatever
\* the state; it starts the fade-out whose end starts the fade-out that ends
\* in state Idle.
C1_RejectedLoadEndsIdle ==
  [][ /\ (Called(ext', "LOAD") /\ ext'[1].v = 0) =>
           /\ ~Called(ext', "new Player")
           /\ player_' = player_
           /\ livePlayers' = livePlayers
           /\ fades' = Append(fades, Callback("metadataError", IDLE,
                                              "onLoadMetadataError_"))
      /\ MetadataErrorTransitionDone =>
           fades' = Append(Tail(fades), Callback("setState", IDLE,
                                                 "onLoadMetadataError_"))
      /\ (SetStateTransitionDone
            /\ Head(fades).from = "onLoadMetadataError_") =>
           state_' = IDLE
    ]_vars

\* a LOAD has just been rejected while a session was playing
C1_Witness ==
  /\ Called(ext, "LOAD") /\ ext[1].v = 0
  /\ state_ = PLAYING /\ player_ # NoPlayer

\* C2: In every state the program reaches before it shuts down, the idle
\* timer is the one of the table for the current state.
C2_IdleTimerOfState == ~shutdown => ArmedDurations = TimersOf(state_)

\* C3: At most one idle timer is pending, and it is the one this.idleTimerId_
\* names: an idle timer that has been superseded cannot fire.
C3_OneIdleTimer ==
  /\ Cardinality(idleTimers) <= 1
  /\ \A x \in idleTimers : x.id = idleTimerId_

\* Done has been entered, at the end of a fade-out, and its timer is the
\* only one
C3_Witness ==
  state_ = DONE /\ idleTimers = {[id |-> idleTimerId_, t |-> IDLE_TIMEOUT_DONE]}

\* C4: Once cancelPlayerAutoPlay_ has run while a probe was pending, no
\* step polls the buffer or calls play until a new probe is started.
C4_CancelledProbeIsQuiet ==
  [][ probeCancelled =>
        ~Called(ext', "play") /\ ~Called(ext', "getBufferedDuration_")
    ]_vars

\* C5: At most one probe timer (display-delay or poll) is pending.
C5_OneProbe == Len(displayTimers) + Len(pollTimers) <= 1

\* C6: A poll starts playback exactly when the buffered lead it reads is at
\* least INITIAL_PUMP_DURATION_, and once playback has been started no poll
\* remains scheduled.
C6_PollUntilLead ==
  [][ \A i \in 1..Len(ext') :
        ext'[i].op = "getBufferedDuration_" =>
          /\ Called(ext', "play") <=> ext'[i].v >= INITIAL_PUMP_DURATION_
          /\ Called(ext', "play") => pollTimers' = <<>>
    ]_vars

\* C7: When the display delay of a medium of unknown duration, or of one no
\* longer than INITIAL_PUMP_DURATION_, expires, play is called at once, the
\* buffer is not polled and no poll is scheduled.
C7_ShortMediaPlayAtOnce ==
  [][ (DisplayTimerFire
         /\ (Head(displayTimers) = NaN
               \/ Head(displayTimers) <= INITIAL_PUMP_DURATION_)) =>
        /\ ext' = <<[op |-> "play", state |-> state_, v |-> 0]>>
        /\ pollTimers' = <<>>
    ]_vars

\* C8: A step schedules a probe timer, polls the buffer or calls play only
\* while a player of the Media Player Library is loaded and playerAutoPlay_
\* is set.
C8_OnlyPlayerAutoPlay ==
  [][ (\/ Called(ext', "play")
       \/ Called(ext', "getBufferedDuration_")
       \/ Len(displayTimers') > Len(displayTimers)
       \/ Len(pollTimers') > Len(pollTimers)) =>
        (player_' # NoPlayer /\ playerAutoPlay_')
    ]_vars

\* C9: A STOP command, whatever the state, starts one fade-out; at its end
\* the state becomes Idle, the idle timer is armed for the duration of Idle,
\* and then the stop handler of the media manager is called, once; nothing
\* else calls that handler.
C9_StopEndsIdle ==
  [][ /\ Called(ext', "STOP") =>
           fades' = Append(fades, Callback("stop", IDLE, "onStop_"))
      /\ StopTransitionDone =>
           /\ state_' = IDLE
           /\ Cardinality(idleTimers') = 1
           /\ ArmedDurations' = TimersOf(IDLE)
           /\ Cardinality(Calls(ext', "onStopOrig_")) = 1
           /\ ext'[Len(ext')] = [op |-> "onStopOrig_", state |-> IDLE, v |-> 0]
      /\ Called(ext', "onStopOrig_") => StopTransitionDone
    ]_vars

\* the stop handler has just been called, in state Idle with its timer armed
C9_Witness ==
  /\ ext # <<>>
  /\ ext[Len(ext)] = [op |-> "onStopOrig_", state |-> IDLE, v |-> 0]
  /\ state_ = IDLE /\ ArmedDurations = TimersOf(IDLE)

\* C10: When a STOP has been processed, no player exists: this.player_ is
\* unset and every player constructed has been unloaded.
C10_NoPlayerAfterStop ==
  Called(ext, "onStopOrig_") => (player_ = NoPlayer /\ livePlayers = 0)

\* an error is on its way to Idle: the callback of onError_ or of
\* onLoadMetadataError_, or the crossfaded setState_(IDLE) it starts, waits for
\* the end of its fade-out
ErrorPending ==
  \E i \in 1..Len(fades) :
    \/ fades[i].cb \in {"error", "metadataError"}
    \/ fades[i].cb = "setState" /\ fades[i].state = IDLE

\* C11: When every fade-out ends, an error of any of the three sources, in
\* any state, is followed by state Idle, unless the idle timer ends the
\* receiver first.
C11_ErrorLeadsToIdle == ErrorPending ~> (state_ = IDLE \/ shutdown)

\* an error has been taken while playing and its fade-out has not ended
C11_Witness ==
  /\ state_ = PLAYING
  /\ \E i \in 1..Len(fades) : fades[i].cb = "error"

\* C12: The error handler of the media manager, onErrorOrig_ or
\* onLoadMetadataErrorOrig_, is called only when the state is already Idle.
C12_HookCalledInIdle ==
  [][ \A i \in 1..Len(ext') :
        ext'[i].op \in {"onErrorOrig_", "onLoadMetadataErrorOrig_"} =>
          ext'[i].state = IDLE
    ]_vars

\* C13: When the fade-out that an error started ends and the state becomes
\* Idle, no player exists (this.player_ is unset and every player constructed
\* has been unloaded) and no probe timer is pending.
C13_NoSessionAfterError ==
  [][ (SetStateTransitionDone
         /\ Head(fades).from \in {"onError_", "onLoadMetadataError_"}) =>
        /\ state_' = IDLE
        /\ player_' = NoPlayer /\ livePlayers' = 0
        /\ displayTimers' = <<>> /\ pollTimers' = <<>>
    ]_vars

\* the callbacks of onError_ and onLoadMetadataError_ in a queue of fade-outs
ErrorCallbacks(q) == {i \in 1..Len(q) : q[i].cb \in {"error", "metadataError"}}

\* a LOAD that load() has rejected
RejectedLoad == Called(ext', "LOAD") /\ ext'[1].v = 0

C15_LoadReplacesSession ==
  [][ Called(ext', "LOAD") =>
        /\ livePlayers' <= 1
        /\ player_ # NoPlayer => Called(ext', "unload")
        /\ player_' # NoPlayer => Called(ext', "new Player")
    ]_vars

\* C16: The fade-out that onPlaying_ starts in state Loading ends, and sets
\* Playing, only while the state is still Loading: a state set after the
\* fade-out started is not overwritten by it.
C16_CrossfadeNotSuperseded ==
  [][ (SetStateTransitionDone /\ Head(fades).from = "onPlaying_") =>
        state_ = LOADING
    ]_vars

\* C17: A 'pause' that comes while the player reports underflow, in whatever
\* state and whether the media has ended or not, leaves the state Buffering
\* and makes exactly one call of broadcastStatus, with argument false (the
\* status without the media information).
C17_UnderflowPauseBuffers ==
  [][ \A isDone \in BOOLEAN :
        Pause(isDone, TRUE) =>
          /\ state_' = BUFFERING
          /\ Cardinality(Calls(ext', "broadcastStatus")) = 1
          /\ \A i \in Calls(ext', "broadcastStatus") : ext'[i].v = 0
    ]_vars

\* the status has just been broadcast for an underflow, and Buffering has
\* no idle timer
C17_Witness ==
  /\ Called(ext, "broadcastStatus")
  /\ state_ = BUFFERING /\ idleTimers = {}

\* C18: A 'pause' without underflow leaves the state and the idle timer as
\* they were when the state is Idle or the play position is the duration, and
\* sets Paused otherwise; after it no poll of the buffer is scheduled.
C18_PauseWithoutUnderflow ==
  [][ \A isDone \in BOOLEAN :
        Pause(isDone, FALSE) =>
          /\ IF state_ = IDLE \/ isDone
               THEN /\ state_' = state_
                    /\ idleTimers' = idleTimers
                    /\ idleTimerId_' = idleTimerId_
               ELSE state_' = PAUSED
          /\ pollTimers' = <<>>
    ]_vars

\* C19: A 'timeupdate' in state Playing leaves the state Playing and the
\* idle timer as it was (none is cleared, none is armed), and publishes no
\* application state; a 'timeupdate' in state Buffering or Loading sets
\* Playing.
C19_ProgressInPlaying ==
  [][ MediaTimeUpdate =>
        /\ state_ = PLAYING =>
             /\ state_' = PLAYING
             /\ idleTimers' = idleTimers /\ idleTimerId_' = idleTimerId_
             /\ applicationState_' = applicationState_
             /\ ~Called(ext', "setApplicationState")
        /\ state_ \in {BUFFERING, LOADING} => state_' = PLAYING
    ]_vars

\* a 'timeupdate' has just been handled in state Playing
C19_Witness ==
  /\ ext = <<[op |-> "timeupdate", state |-> PLAYING, v |-> 0]>>
  /\ state_ = PLAYING

\* The application state the receiver manager was given last: the one the
\* constructor publishes, getApplicationState_(), until updateApplicationState_
\* publishes one and records it in this.applicationState_
LastPublished ==
  IF applicationState_ = Undefined THEN getApplicationState_(NoMedia)
  ELSE applicationState_

\* C20: An application state that is published differs from the one
\* published last, from the constructor's on.
C20_NoRepeatedPublish ==
  [][ Called(ext', "setApplicationState") =>
        applicationState_' # LastPublished
    ]_vars

\* The protocol kind the specification gives a description: the first of
\* HLS, DASH and SmoothStreaming whose signature the extension of the URL
\* path, compared without regard to case, or the content type matches
\* (SmoothStreaming also when the path contains ".ism"), and Native when
\* none does.
S_ism == <<"i", "s", "m">>

ProtocolKind(media) ==
  LET path == getPath_(media.contentId)
      extension == toLowerCase(getExtension_(path))
      type == media.contentType
  IN IF extension = S_m3u8 \/ type \in {T_x_mpegurl, T_apple_mpegurl} THEN HLS
     ELSE IF extension = S_mpd \/ type = T_dash THEN DASH
     ELSE IF extension = S_ism \/ Contains(path, S_dot_ism) \/ type = T_sstr
       THEN SMOOTH
     ELSE NATIVE

\* C21: For every description, the protocol loadVideo_ chooses is the kind
\* the specification gives it: HLS before DASH before SmoothStreaming, by
\* the extension of the URL path whatever its case or by the content type,
\* and Native when no signature matches.
C21_ProtocolByPriority ==
  (arg.fn = "loadVideo_" /\ result # Undefined) =>
    result = ProtocolKind(arg.media)

\* C25: customizedStatusCallback_ returns the status BUFFERING for the
\* status PAUSED when this.state_ is buffering, returns the status it was
\* given in every other case, and leaves every field of the object as it
\* was.
C25_StatusRelabelled ==
  [][ StatusCallbackCall =>
        /\ result' = IF arg.mediaStatus.playerState = PLAYER_PAUSED
                        /\ state_ = BUFFERING
                       THEN PLAYER_BUFFERING
                       ELSE arg.mediaStatus.playerState
        /\ fields' = fields
    ]_vars

\* PAUSED has been reported as BUFFERING in state buffering
C25_Witness ==
  /\ arg.fn = "customizedStatusCallback_"
  /\ arg.mediaStatus.playerState = PLAYER_PAUSED
  /\ state_ = BUFFERING /\ result = PLAYER_BUFFERING

\* C22: When the playback that auto-play has started for a LOAD begins
\* ('playing'), the preload of that LOAD has completed, so that Loading has
\* been entered, or is about to be at the end of the fade-out, before
\* Playing.
C22_LoadingBeforePlaying ==
  [][ MediaPlayingAfterPlay => preloads = 0 ]_vars

\* C23: A 'playing' in state Loading or Buffering leaves no timer of the
\* auto-play probe pending; from Buffering it sets Playing at once, from
\* Loading it starts the fade-out whose end sets Playing; and when Playing
\* is entered no idle timer is armed.
C23_PlayingCancelsProbe ==
  [][ /\ (MediaPlaying /\ state_ \in {LOADING, BUFFERING}) =>
           /\ displayTimers' = <<>> /\ pollTimers' = <<>>
           /\ state_ = BUFFERING => (state_' = PLAYING /\ idleTimers' = {})
           /\ state_ = LOADING =>
                fades' = Append(fades, Callback("setState", PLAYING,
                                                "onPlaying_"))
      /\ (SetStateTransitionDone /\ Head(fades).from = "onPlaying_") =>
           (state_' = PLAYING /\ idleTimers' = {})
    ]_vars

\* C24: A 'stalled' or 'waiting' sets Buffering when the state is Playing
\* and the readyState of the media element is below HAVE_ENOUGH_DATA; in
\* every other state, Buffering included, and with enough data it leaves the
\* state and the idle timer as they were.
C24_StallOnlyInPlaying ==
  [][ \A readyState \in ReadyStates :
        Stalled(readyState) =>
          IF state_ = PLAYING /\ readyState < HAVE_ENOUGH_DATA
            THEN state_' = BUFFERING
            ELSE /\ state_' = state_
                 /\ idleTimers' = idleTimers
                 /\ idleTimerId_' = idleTimerId_
    ]_vars

\* Buffering has been entered by a stall of media the element plays itself
C24_Witness ==
  /\ state_ = BUFFERING /\ stalledListeners
  /\ player_ = NoPlayer /\ fades = <<>> /\ preloads = 0

\* C26: While a player of the Media Player Library is loaded, a 'stalled'
\* or 'waiting' of the media element does not change the state.
C26_NoStallWithPlayer ==
  [][ (MediaStalled /\ player_ # NoPlayer) => state_' = state_ ]_vars

\* C27: Once a STOP has been handled after the LOAD, the state becomes Idle
\* and stays Idle, unless the idle timer ends the receiver: no completion of
\* the LOAD sets Loading after the STOP has taken effect.
C27_IdleAfterStop ==
  Called(ext, "STOP") ~> ([](state_ = IDLE) \/ shutdown)

\* C28: Every idle timer that is armed has the duration IDLE_TIMEOUT gives
\* the current state, so none is armed in Playing or Buffering, and the idle
\* timer never ends the receiver in Playing or Buffering.
C28_ArmedTimerOfState ==
  /\ [](\A x \in idleTimers : x.t = IDLE_TIMEOUT(state_))
  /\ [](state_ \in {PLAYING, BUFFERING} => idleTimers = {})
  /\ [][ IdleTimerFire => state_ \notin {PLAYING, BUFFERING} ]_vars

\* Paused has been entered while a player is loaded, and the one timer that
\* is armed is the 20-minute one of Paused
C28_Witness ==
  /\ state_ = PAUSED /\ player_ # NoPlayer /\ ~shutdown
  /\ idleTimers = {[id |-> idleTimerId_, t |-> IDLE_TIMEOUT_PAUSED]}

\* C29: In state Idle the application state published last is 'Ready To
\* Cast', and a 'Now Casting' string is published only when the state is not
\* Idle.
C29_ReadyToCastInIdle ==
  /\ [](state_ = IDLE => LastPublished = READY_TO_CAST)
  /\ [][ (Called(ext', "setApplicationState")
            /\ applicationState_' \in {NOW_CASTING, NOW_CASTING_TITLE}) =>
          /\ state_' # IDLE
          /\ \A i \in DOMAIN ext' :
               ext'[i].op = "setApplicationState" => ext'[i].state # IDLE
    ]_vars

\* Idle has been entered again after media the element plays itself was
\* loaded, and 'Ready To Cast' has just been published in place of a 'Now
\* Casting' string
C29_Witness ==
  /\ state_ = IDLE /\ stalledListeners
  /\ Called(ext, "setApplicationState") /\ applicationState_ = READY_TO_CAST

====
